---- MODULE Spec2Model ----
(***************************************************************************)
(* Interview Transcript Analyzer (src/app.py).                             *)
(*                                                                         *)
(* One execution of the script: configure_gemini_api() followed by main(). *)
(* main() reads the uploaded file, extracts its text, shows a preview,     *)
(* builds the prompt, calls the external generation service and renders    *)
(* the report.  Text is modelled as a sequence of Unicode code points, so  *)
(* slicing, joining, decoding and interpolation are computed character by  *)
(* character as Python computes them.                                      *)
(***************************************************************************)
EXTENDS Integers, Sequences, FiniteSets, TLC

(***************************************************************************)
(* Bounds of the model.                                                    *)
(***************************************************************************)
\* byte buffers of the plain-text branch are enumerated up to this length
MaxBytes == 2
\* PDF page lists / document paragraph lists are enumerated up to this length
MaxSegments == 3
\* the longest transcript has PreviewLimit + LongSlack characters
LongSlack == 500

(***************************************************************************)
(* Program constants.                                                      *)
(***************************************************************************)
\* transcript_text[:1000], len(transcript_text) > 1000
PreviewLimit == 1000

None == "None"

\* "..."
Ellipsis == <<46,46,46>>

\* ' ' (the receiver of ' '.join)
Separator == <<32>>

\* "Could not generate summary."
FallbackSummary ==
  <<67,111,117,108,100,32,110,111,116,32,103,101,110,101,114,97,116,101,32,115,117,109,109,97,114,121,46>>

PdfType == "application/pdf"

DocxType == "application/vnd.openxmlformats-officedocument.wordprocessingml.document"

(***************************************************************************)
(* The f-string of generate_interview_summary, split at the placeholder    *)
(* {transcript_text}.  One tuple of code points per source line.           *)
(***************************************************************************)
PromptPrefix ==
  \* line 40: "Analyze the following interview transcript and provide a comprehensive, structured summary with the following sections:\n"
     <<65,110,97,108,121,122,101,32,116,104,101,32,102,111,108,108,111,119,105,110,103,32,105,110,116,101,114,118,105,101,119,32,116,114,97,110,115,99,114,105,112,116,32,97,110,100,32,112,114,111,118,105,100,101,32,97,32,99,111,109,112,114,101,104,101,110,115,105,118,101,44,32,115,116,114,117,99,116,117,114,101,100,32,115,117,109,109,97,114,121,32,119,105,116,104,32,116,104,101,32,102,111,108,108,111,119,105,110,103,32,115,101,99,116,105,111,110,115,58,10>>
  \* line 41: "\n"
  \o <<10>>
  \* line 42: "1. Interview Overview\n"
  \o <<49,46,32,73,110,116,101,114,118,105,101,119,32,79,118,101,114,118,105,101,119,10>>
  \* line 43: "   - Candidate Name (if mentioned)\n"
  \o <<32,32,32,45,32,67,97,110,100,105,100,97,116,101,32,78,97,109,101,32,40,105,102,32,109,101,110,116,105,111,110,101,100,41,10>>
  \* line 44: "   - Position/Role Applied For\n"
  \o <<32,32,32,45,32,80,111,115,105,116,105,111,110,47,82,111,108,101,32,65,112,112,108,105,101,100,32,70,111,114,10>>
  \* line 45: "   - Interview Type (Technical, Behavioral, etc.)\n"
  \o <<32,32,32,45,32,73,110,116,101,114,118,105,101,119,32,84,121,112,101,32,40,84,101,99,104,110,105,99,97,108,44,32,66,101,104,97,118,105,111,114,97,108,44,32,101,116,99,46,41,10>>
  \* line 46: "\n"
  \o <<10>>
  \* line 47: "2. Candidate Background\n"
  \o <<50,46,32,67,97,110,100,105,100,97,116,101,32,66,97,99,107,103,114,111,117,110,100,10>>
  \* line 48: "   - Key Professional Experiences\n"
  \o <<32,32,32,45,32,75,101,121,32,80,114,111,102,101,115,115,105,111,110,97,108,32,69,120,112,101,114,105,101,110,99,101,115,10>>
  \* line 49: "   - Educational Qualifications\n"
  \o <<32,32,32,45,32,69,100,117,99,97,116,105,111,110,97,108,32,81,117,97,108,105,102,105,99,97,116,105,111,110,115,10>>
  \* line 50: "   - Relevant Skills Highlighted\n"
  \o <<32,32,32,45,32,82,101,108,101,118,97,110,116,32,83,107,105,108,108,115,32,72,105,103,104,108,105,103,104,116,101,100,10>>
  \* line 51: "\n"
  \o <<10>>
  \* line 52: "3. Interview Highlights\n"
  \o <<51,46,32,73,110,116,101,114,118,105,101,119,32,72,105,103,104,108,105,103,104,116,115,10>>
  \* line 53: "   - Significant Discussion Points\n"
  \o <<32,32,32,45,32,83,105,103,110,105,102,105,99,97,110,116,32,68,105,115,99,117,115,115,105,111,110,32,80,111,105,110,116,115,10>>
  \* line 54: "   - Technical or Role-Specific Questions and Answers\n"
  \o <<32,32,32,45,32,84,101,99,104,110,105,99,97,108,32,111,114,32,82,111,108,101,45,83,112,101,99,105,102,105,99,32,81,117,101,115,116,105,111,110,115,32,97,110,100,32,65,110,115,119,101,114,115,10>>
  \* line 55: "   - Candidate's Strengths\n"
  \o <<32,32,32,45,32,67,97,110,100,105,100,97,116,101,39,115,32,83,116,114,101,110,103,116,104,115,10>>
  \* line 56: "   - Areas of Potential Development\n"
  \o <<32,32,32,45,32,65,114,101,97,115,32,111,102,32,80,111,116,101,110,116,105,97,108,32,68,101,118,101,108,111,112,109,101,110,116,10>>
  \* line 57: "\n"
  \o <<10>>
  \* line 58: "4. Interview Tone and Communication\n"
  \o <<52,46,32,73,110,116,101,114,118,105,101,119,32,84,111,110,101,32,97,110,100,32,67,111,109,109,117,110,105,99,97,116,105,111,110,10>>
  \* line 59: "   - Candidate's Communication Style\n"
  \o <<32,32,32,45,32,67,97,110,100,105,100,97,116,101,39,115,32,67,111,109,109,117,110,105,99,97,116,105,111,110,32,83,116,121,108,101,10>>
  \* line 60: "   - Confidence Level\n"
  \o <<32,32,32,45,32,67,111,110,102,105,100,101,110,99,101,32,76,101,118,101,108,10>>
  \* line 61: "   - Depth of Responses\n"
  \o <<32,32,32,45,32,68,101,112,116,104,32,111,102,32,82,101,115,112,111,110,115,101,115,10>>
  \* line 62: "\n"
  \o <<10>>
  \* line 63: "5. Interviewer's Perspective\n"
  \o <<53,46,32,73,110,116,101,114,118,105,101,119,101,114,39,115,32,80,101,114,115,112,101,99,116,105,118,101,10>>
  \* line 64: "   - Key Observations\n"
  \o <<32,32,32,45,32,75,101,121,32,79,98,115,101,114,118,97,116,105,111,110,115,10>>
  \* line 65: "   - Potential Fit for the Role\n"
  \o <<32,32,32,45,32,80,111,116,101,110,116,105,97,108,32,70,105,116,32,102,111,114,32,116,104,101,32,82,111,108,101,10>>
  \* line 66: "   - Notable Reactions or Comments\n"
  \o <<32,32,32,45,32,78,111,116,97,98,108,101,32,82,101,97,99,116,105,111,110,115,32,111,114,32,67,111,109,109,101,110,116,115,10>>
  \* line 67: "\n"
  \o <<10>>
  \* line 68: "6. Key Takeaways\n"
  \o <<54,46,32,75,101,121,32,84,97,107,101,97,119,97,121,115,10>>
  \* line 69: "   - Overall Impression\n"
  \o <<32,32,32,45,32,79,118,101,114,97,108,108,32,73,109,112,114,101,115,115,105,111,110,10>>
  \* line 70: "   - Recommendation or Next Steps\n"
  \o <<32,32,32,45,32,82,101,99,111,109,109,101,110,100,97,116,105,111,110,32,111,114,32,78,101,120,116,32,83,116,101,112,115,10>>
  \* line 71: "\n"
  \o <<10>>
  \* line 72: "Transcript:\n"
  \o <<84,114,97,110,115,99,114,105,112,116,58,10>>

PromptSuffix ==
  \* line 73: "\n"
     <<10>>
  \* line 74: "\n"
  \o <<10>>
  \* line 75: "Provide insights and observations based on the conversation, maintaining objectivity and focusing on professional assessment."
  \o <<80,114,111,118,105,100,101,32,105,110,115,105,103,104,116,115,32,97,110,100,32,111,98,115,101,114,118,97,116,105,111,110,115,32,98,97,115,101,100,32,111,110,32,116,104,101,32,99,111,110,118,101,114,115,97,116,105,111,110,44,32,109,97,105,110,116,97,105,110,105,110,103,32,111,98,106,101,99,116,105,118,105,116,121,32,97,110,100,32,102,111,99,117,115,105,110,103,32,111,110,32,112,114,111,102,101,115,115,105,111,110,97,108,32,97,115,115,101,115,115,109,101,110,116,46>>

(***************************************************************************)
(* Pure string operations, on sequences of code points.                    *)
(***************************************************************************)
\* s[:n]
Slice(s, n) ==
  SubSeq(s, 1, IF Len(s) < n THEN Len(s) ELSE n)

\* PreviewText with the comparison len(transcript_text) >= 1000
PreviewTextInclusive(transcript_text) ==
  IF Len(transcript_text) >= PreviewLimit
    THEN Slice(transcript_text, PreviewLimit) \o Ellipsis
    ELSE transcript_text

\* transcript_text[:1000] + "..." if len(transcript_text) > 1000 else transcript_text
PreviewText(transcript_text) ==
  IF Len(transcript_text) > PreviewLimit
    THEN Slice(transcript_text, PreviewLimit) \o Ellipsis
    ELSE transcript_text

\* sep.join(segments)
RECURSIVE Join(_, _)
Join(sep, segments) ==
  IF segments = <<>> THEN <<>>
  ELSE IF Len(segments) = 1 THEN Head(segments)
  ELSE Head(segments) \o sep \o Join(sep, Tail(segments))

\* BuildPrompt given the preview text instead of the whole transcript
BuildPromptFromPreview(transcript_text) ==
  PromptPrefix \o PreviewText(transcript_text) \o PromptSuffix

\* the f-string: the template with transcript_text substituted for the placeholder
BuildPrompt(transcript_text) ==
  PromptPrefix \o transcript_text \o PromptSuffix

(***************************************************************************)
(* bytes.decode('utf-8') with the default 'strict' error handler.          *)
(***************************************************************************)
IsContinuation(b) ==
  b >= 128 /\ b <= 191

\* number of bytes of the sequence a lead byte announces; 0 for an invalid lead
SequenceLength(b) ==
  IF b <= 127 THEN 1
  ELSE IF b >= 194 /\ b <= 223 THEN 2
  ELSE IF b >= 224 /\ b <= 239 THEN 3
  ELSE IF b >= 240 /\ b <= 244 THEN 4
  ELSE 0

\* the second byte is restricted for E0, ED, F0, F4 (overlong forms,
\* surrogates, code points above U+10FFFF)
SecondByteOk(lead, b) ==
  IF lead = 224 THEN b >= 160 /\ b <= 191
  ELSE IF lead = 237 THEN b >= 128 /\ b <= 159
  ELSE IF lead = 240 THEN b >= 144 /\ b <= 191
  ELSE IF lead = 244 THEN b >= 128 /\ b <= 143
  ELSE IsContinuation(b)

WellFormedAt(bytes, i, n) ==
  /\ n >= 1
  /\ i + n - 1 <= Len(bytes)
  /\ n >= 2 => SecondByteOk(bytes[i], bytes[i + 1])
  /\ \A k \in 2..(n - 1) : IsContinuation(bytes[i + k])

CodePointAt(bytes, i, n) ==
  IF n = 1 THEN bytes[i]
  ELSE IF n = 2 THEN (bytes[i] % 32) * 64 + (bytes[i + 1] % 64)
  ELSE IF n = 3 THEN (bytes[i] % 16) * 4096 + (bytes[i + 1] % 64) * 64 + (bytes[i + 2] % 64)
  ELSE (bytes[i] % 8) * 262144 + (bytes[i + 1] % 64) * 4096
         + (bytes[i + 2] % 64) * 64 + (bytes[i + 3] % 64)

\* A strict decoder scans left to right, one sequence per lead byte.  In a
\* well-formed buffer the sequences start exactly at the bytes that are not
\* continuation bytes, so the scan is stated over those positions.
CharacterStarts(bytes) ==
  SelectSeq([i \in 1..Len(bytes) |-> i], LAMBDA i : ~IsContinuation(bytes[i]))

IsValidUtf8(bytes) ==
  /\ Len(bytes) > 0 => ~IsContinuation(bytes[1])
  /\ \A i \in 1..Len(bytes) :
       ~IsContinuation(bytes[i]) =>
         LET n == SequenceLength(bytes[i]) IN
           /\ WellFormedAt(bytes, i, n)
           /\ i + n <= Len(bytes) => ~IsContinuation(bytes[i + n])

\* Utf8Decode with errors='ignore': malformed input never raises
Utf8DecodeIgnoringErrors(bytes) ==
  IF ~IsValidUtf8(bytes) THEN [ok |-> TRUE, text |-> SelectSeq(bytes, LAMBDA b : b <= 127)]
  ELSE LET starts == CharacterStarts(bytes) IN
    [ok |-> TRUE,
     text |-> [k \in 1..Len(starts) |->
                CodePointAt(bytes, starts[k], SequenceLength(bytes[starts[k]]))]]

\* [ok |-> FALSE] stands for UnicodeDecodeError
Utf8Decode(bytes) ==
  IF ~IsValidUtf8(bytes) THEN [ok |-> FALSE, text |-> <<>>]
  ELSE LET starts == CharacterStarts(bytes) IN
    [ok |-> TRUE,
     text |-> [k \in 1..Len(starts) |->
                CodePointAt(bytes, starts[k], SequenceLength(bytes[starts[k]]))]]

(***************************************************************************)
(* Inputs: the environment, the uploaded file, and the outcomes of the     *)
(* external libraries.                                                     *)
(***************************************************************************)
\* os.getenv("GOOGLE_API_KEY"): unset, set to the empty string, or set
ApiKeys == {None, "", "test-api-key"}

\* declared content types that take the plain-text branch
OtherTypes == {"text/plain", "application/octet-stream"}

UpTo(S, n) ==
  UNION {[1..k -> S] : k \in 0..n}

Repeat(c, n) ==
  [i \in 1..n |-> c]

\* lengths around the preview limit
LongLengths == {PreviewLimit - 1, PreviewLimit, PreviewLimit + 1, PreviewLimit + LongSlack}

\* 'a', the two bytes of U+00E9, and a byte that never occurs in UTF-8
ByteAlphabet == {97, 195, 169, 255}

\* "Interview"
WordOfTemplate == <<73,110,116,101,114,118,105,101,119>>

\* "6. Key Takeaways"
HeaderOfTemplate == <<54,46,32,75,101,121,32,84,97,107,101,97,119,97,121,115>>

\* "Q: Tell me about yourself. A: I am a backend engineer with 5 years experience."
SampleTranscript ==
  <<81,58,32,84,101,108,108,32,109,101,32,97,98,111,117,116,32,121,111,117,114,115,101,108,102,46,32,65,58,32,73,32,97,109,32,97,32,98,97,99,107,101,110,100,32,101,110,103,105,110,101,101,114,32,119,105,116,104,32,53,32,121,101,97,114,115,32,101,120,112,101,114,105,101,110,99,101,46>>

\* the contents of uploaded plain-text files (all of the named ones are ASCII,
\* so their bytes are their code points)
ByteBuffers ==
  UpTo(ByteAlphabet, MaxBytes)
    \cup {WordOfTemplate, HeaderOfTemplate, SampleTranscript}
    \cup {Repeat(97, n) : n \in LongLengths}
    \cup {Repeat(97, PreviewLimit - 1) \o <<195, 169>>}

\* page.extract_text() / para.text: empty, "a", " ", "a a"
SegmentTexts == {<<>>, <<97>>, <<32>>, <<97, 32, 97>>}

SegmentLists ==
  UpTo(SegmentTexts, MaxSegments)
    \cup {<<Repeat(97, PreviewLimit - 2), <<>>, <<>>>>,
          <<Repeat(97, PreviewLimit - 1), <<>>, <<>>>>,
          <<HeaderOfTemplate>>}

NoFile == [type |-> None, value |-> <<>>, readable |-> FALSE, segments |-> <<>>]

\* st.file_uploader results: the declared type, the raw bytes (used by the
\* plain-text branch), and what PyPDF2 / python-docx make of the file
Uploads ==
  {[type |-> t, value |-> b, readable |-> TRUE, segments |-> <<>>] :
      t \in OtherTypes, b \in ByteBuffers}
    \cup {[type |-> t, value |-> <<>>, readable |-> TRUE, segments |-> s] :
      t \in {PdfType, DocxType}, s \in SegmentLists}
    \cup {[type |-> t, value |-> <<>>, readable |-> FALSE, segments |-> <<>>] :
      t \in {PdfType, DocxType}}

\* response.text of a successful generation: "MOCK_SUMMARY", "  ok \n", "",
\* the fallback text itself, and a text longer than the preview limit
Responses ==
  {<<77,79,67,75,95,83,85,77,77,65,82,89>>, <<32,32,111,107,32,10>>, <<>>,
   FallbackSummary, Repeat(97, PreviewLimit + 1)}

\* outcomes of model.generate_content(prompt) followed by response.text:
\* either of the two raises, or the text is returned
GenerateContentOutcomes ==
  {[ok |-> FALSE, text |-> <<>>, exc |-> e] : e \in {"generate_content raised", "response.text raised"}}
    \cup {[ok |-> TRUE, text |-> r, exc |-> ""] : r \in Responses}

\* the external client: without a configured credential every request fails
ClientOutcomes(configured) ==
  IF configured THEN GenerateContentOutcomes
  ELSE {o \in GenerateContentOutcomes : ~o.ok}

(***************************************************************************)
(* Extraction (the three branches of main's try block).                    *)
(***************************************************************************)
\* ExtractText with ''.join in place of ' '.join
ExtractTextJoinedWithoutSpace(file) ==
  IF file.type = PdfType
    THEN IF file.readable
           THEN [ok |-> TRUE, text |-> Join(<<>>, file.segments), exc |-> ""]
           ELSE [ok |-> FALSE, text |-> <<>>, exc |-> "PdfReadError"]
  ELSE IF file.type = DocxType
    THEN IF file.readable
           THEN [ok |-> TRUE, text |-> Join(<<>>, file.segments), exc |-> ""]
           ELSE [ok |-> FALSE, text |-> <<>>, exc |-> "PackageNotFoundError"]
  ELSE LET d == Utf8Decode(file.value) IN
    IF d.ok THEN [ok |-> TRUE, text |-> d.text, exc |-> ""]
    ELSE [ok |-> FALSE, text |-> <<>>, exc |-> "UnicodeDecodeError"]

ExtractText(file) ==
  IF file.type = PdfType
    THEN IF file.readable
           THEN [ok |-> TRUE, text |-> Join(Separator, file.segments), exc |-> ""]
           ELSE [ok |-> FALSE, text |-> <<>>, exc |-> "PdfReadError"]
  ELSE IF file.type = DocxType
    THEN IF file.readable
           THEN [ok |-> TRUE, text |-> Join(Separator, file.segments), exc |-> ""]
           ELSE [ok |-> FALSE, text |-> <<>>, exc |-> "PackageNotFoundError"]
  ELSE LET d == Utf8Decode(file.value) IN
    IF d.ok THEN [ok |-> TRUE, text |-> d.text, exc |-> ""]
    ELSE [ok |-> FALSE, text |-> <<>>, exc |-> "UnicodeDecodeError"]

(***************************************************************************)
(* State.                                                                  *)
(***************************************************************************)
VARIABLES
  pc,                \* position in the script
  api_key,           \* the environment's GOOGLE_API_KEY
  client_configured, \* whether genai.configure(api_key=...) has taken effect
  uploaded_file,     \* main's uploaded_file
  transcript_text,   \* main's transcript_text: <<>> while unbound, <<text>> once bound
  model,             \* generate_interview_summary's model
  prompt,            \* generate_interview_summary's prompt: <<>> or <<text>>
  response,          \* the outcome of the generation call: <<>> or <<outcome>>
  summary,           \* main's summary: <<>> or <<[summary |-> text]>>
  events             \* what the script has shown and which external calls it has made, in order

vars == <<pc, api_key, client_configured, uploaded_file, transcript_text, model, prompt, response, summary, events>>

\* an element shown on the page: the widget, its literal label (written
\* without the emoji some labels start with), its computed text, and the
\* exception whose str() is appended to the label
Ui(widget, label, body, exc) ==
  [kind |-> "ui", name |-> widget, label |-> label, body |-> body, exc |-> exc]

\* a call into an external library, with the text handed to it
Call(name, body) ==
  [kind |-> "call", name |-> name, label |-> "", body |-> body, exc |-> ""]

\* except Exception as e: st.error(f"Error processing file: {str(e)}")
ProcessingError(exc) ==
  Ui("error", "Error processing file: ", <<>>, exc)

\* except Exception as e: st.error(f"Error generating summary: {str(e)}")
GenerationError(exc) ==
  Ui("error", "Error generating summary: ", <<>>, exc)

Init ==
  /\ pc = "configure"
  /\ api_key \in ApiKeys
  /\ client_configured = FALSE
  /\ uploaded_file = NoFile
  /\ transcript_text = <<>>
  /\ model = None
  /\ prompt = <<>>
  /\ response = <<>>
  /\ summary = <<>>
  /\ events = <<>>

(***************************************************************************)
(* configure_gemini_api()                                                  *)
(***************************************************************************)
\* ConfigureGeminiApi without the "if not api_key" check: whatever
\* os.getenv returned is handed to genai.configure
ConfigureGeminiApiWithoutCheck ==
  /\ pc = "configure"
  /\ \/ /\ events' = Append(events, Call("genai.configure", <<>>))
        /\ client_configured' = TRUE
     \/ /\ events' = events \o <<Call("genai.configure", <<>>),
                                 Ui("error", "Error configuring API: ", <<>>, "configure raised")>>
        /\ UNCHANGED client_configured
  /\ pc' = "main"
  /\ UNCHANGED <<api_key, uploaded_file, transcript_text, model, prompt, response, summary>>

ConfigureGeminiApi ==
  /\ pc = "configure"
  /\ IF api_key = None \/ api_key = ""
       THEN /\ events' = Append(events, Ui("error", "Google API key not found in .env file.", <<>>, ""))
            /\ UNCHANGED client_configured
       ELSE \/ /\ events' = Append(events, Call("genai.configure", <<>>))
               /\ client_configured' = TRUE
            \/ /\ events' = events \o <<Call("genai.configure", <<>>),
                                        Ui("error", "Error configuring API: ", <<>>, "configure raised")>>
               /\ UNCHANGED client_configured
  /\ pc' = "main"
  /\ UNCHANGED <<api_key, uploaded_file, transcript_text, model, prompt, response, summary>>

(***************************************************************************)
(* main()                                                                  *)
(***************************************************************************)
\* st.set_page_config, st.title, st.file_uploader, if uploaded_file is not None
FileUploader ==
  /\ pc = "main"
  /\ \E f \in {NoFile} \cup Uploads :
       /\ uploaded_file' = f
       /\ pc' = IF f = NoFile THEN "done" ELSE "extract"
  /\ events' = Append(events, Ui("title", "Interview Transcript Analyzer", <<>>, ""))
  /\ UNCHANGED <<api_key, client_configured, transcript_text, model, prompt, response, summary>>

\* ExtractTranscript with the except clause around the extraction only: the
\* error is shown and the flow goes on with an empty transcript
ExtractTranscriptContinuing ==
  /\ pc = "extract"
  /\ LET r == ExtractText(uploaded_file) IN
       IF r.ok
         THEN /\ transcript_text' = <<r.text>>
              /\ events' = Append(events, Call("extract", <<>>))
         ELSE /\ transcript_text' = <<<<>>>>
              /\ events' = events \o <<Call("extract", <<>>), ProcessingError(r.exc)>>
  /\ pc' = "preview"
  /\ UNCHANGED <<api_key, client_configured, uploaded_file, model, prompt, response, summary>>

\* the if/elif/else that reads the file, and the except clause when it throws
ExtractTranscript ==
  /\ pc = "extract"
  /\ LET r == ExtractText(uploaded_file) IN
       IF r.ok
         THEN /\ transcript_text' = <<r.text>>
              /\ events' = Append(events, Call("extract", <<>>))
              /\ pc' = "preview"
         ELSE /\ events' = events \o <<Call("extract", <<>>), ProcessingError(r.exc)>>
              /\ pc' = "done"
              /\ UNCHANGED transcript_text
  /\ UNCHANGED <<api_key, client_configured, uploaded_file, model, prompt, response, summary>>

\* the expander with the preview, then the "Analyzing" line
ShowPreview ==
  /\ pc = "preview"
  /\ events' = events \o
       <<Ui("expander", "Original Transcript Preview", <<>>, ""),
         Ui("text", "", PreviewText(transcript_text[1]), ""),
         Ui("write", "Analyzing Interview Transcript...", <<>>, "")>>
  /\ pc' = "model"
  /\ UNCHANGED <<api_key, client_configured, uploaded_file, transcript_text, model, prompt, response, summary>>

(***************************************************************************)
(* generate_interview_summary(transcript_text)                             *)
(***************************************************************************)
\* model = genai.GenerativeModel(...): outside the function's try block, so
\* an exception here is caught by main's except clause
GenerativeModel ==
  /\ pc = "model"
  /\ \/ /\ model' = "gemini-2.5-pro-exp-03-25"
        /\ events' = Append(events, Call("GenerativeModel", <<>>))
        /\ pc' = "prompt"
     \/ /\ events' = events \o <<Call("GenerativeModel", <<>>), ProcessingError("GenerativeModel raised")>>
        /\ pc' = "done"
        /\ UNCHANGED model
  /\ UNCHANGED <<api_key, client_configured, uploaded_file, transcript_text, prompt, response, summary>>

\* prompt = f"""..."""
FormatPrompt ==
  /\ pc = "prompt"
  /\ prompt' = <<BuildPrompt(transcript_text[1])>>
  /\ pc' = "generate"
  /\ UNCHANGED <<api_key, client_configured, uploaded_file, transcript_text, model, response, summary, events>>

IsWhitespace(c) == c \in {9, 10, 13, 32}

\* s.strip()
Strip(s) ==
  LET kept == {i \in DOMAIN s : ~IsWhitespace(s[i])}
  IN IF kept = {} THEN <<>>
     ELSE SubSeq(s, CHOOSE i \in kept : \A j \in kept : i <= j,
                    CHOOSE i \in kept : \A j \in kept : i >= j)

\* SummaryOf returning response.text.strip()
SummaryOfStripped(outcome) ==
  IF outcome.ok THEN [summary |-> Strip(outcome.text)] ELSE [summary |-> FallbackSummary]

\* SummaryOf whose except branch returns the empty text
SummaryOfEmptyFallback(outcome) ==
  IF outcome.ok THEN [summary |-> outcome.text] ELSE [summary |-> <<>>]

\* what the try block returns for an outcome of the external call
SummaryOf(outcome) ==
  IF outcome.ok THEN [summary |-> outcome.text] ELSE [summary |-> FallbackSummary]

\* what the try block shows for an outcome of the external call
NotificationsOf(outcome) ==
  IF outcome.ok THEN <<>> ELSE <<GenerationError(outcome.exc)>>

\* GenerateContent with one retry: a failed call is issued a second time
GenerateContentWithRetry ==
  /\ pc = "generate"
  /\ \E first \in ClientOutcomes(client_configured), second \in ClientOutcomes(client_configured) :
       LET outcome == IF first.ok THEN first ELSE second IN
         /\ response' = <<outcome>>
         /\ summary' = <<SummaryOf(outcome)>>
         /\ events' = events \o <<Call("generate_content", prompt[1])>>
                        \o (IF first.ok THEN <<>> ELSE <<Call("generate_content", prompt[1])>>)
                        \o NotificationsOf(outcome)
  /\ pc' = "render"
  /\ UNCHANGED <<api_key, client_configured, uploaded_file, transcript_text, model, prompt>>

\* the try block: model.generate_content(prompt), response.text, except
GenerateContent ==
  /\ pc = "generate"
  /\ \E outcome \in ClientOutcomes(client_configured) :
       /\ response' = <<outcome>>
       /\ summary' = <<SummaryOf(outcome)>>
       /\ events' = events \o <<Call("generate_content", prompt[1])>> \o NotificationsOf(outcome)
  /\ pc' = "render"
  /\ UNCHANGED <<api_key, client_configured, uploaded_file, transcript_text, model, prompt>>

\* st.header, st.markdown, st.write(summary["summary"])
DisplaySummary ==
  /\ pc = "render"
  /\ events' = events \o
       <<Ui("header", "Interview Analysis Report", <<>>, ""),
         Ui("markdown", "### Comprehensive Insights", <<>>, ""),
         Ui("write", "", summary[1].summary, "")>>
  /\ pc' = "done"
  /\ UNCHANGED <<api_key, client_configured, uploaded_file, transcript_text, model, prompt, response, summary>>

Next ==
  \/ ConfigureGeminiApi
  \/ FileUploader
  \/ ExtractTranscript
  \/ ShowPreview
  \/ GenerativeModel
  \/ FormatPrompt
  \/ GenerateContent
  \/ DisplaySummary

Spec == Init /\ [][Next]_vars


(***************************************************************************)
(* Observations on a state.                                                *)
(***************************************************************************)
IsError(e) == e.kind = "ui" /\ e.name = "error"

IsProcessingError(e) == IsError(e) /\ e.label = "Error processing file: "

IsGenerationError(e) == IsError(e) /\ e.label = "Error generating summary: "

IsConfigurationError(e) == IsError(e) /\ e.label = "Google API key not found in .env file."

IsPreview(e) == e.kind = "ui" /\ e.name = "text"

IsReportHeader(e) == e.kind = "ui" /\ e.name = "header"

IsReport(e) == e.kind = "ui" /\ e.name = "write" /\ e.label = ""

IsTitle(e) == e.kind = "ui" /\ e.name = "title"

IsExtraction(e) == e.kind = "call" /\ e.name = "extract"

IsConfigureCall(e) == e.kind = "call" /\ e.name = "genai.configure"

IsModelConstruction(e) == e.kind = "call" /\ e.name = "GenerativeModel"

IsGenerationCall(e) == e.kind = "call" /\ e.name = "generate_content"

Positions(test(_)) == {i \in DOMAIN events : test(events[i])}

Count(test(_)) == Cardinality(Positions(test))

Happened(test(_)) == Positions(test) # {}

\* every occurrence of the first kind of event comes before every occurrence of the second
Precedes(first(_), second(_)) ==
  \A i \in Positions(first), j \in Positions(second) : i < j

\* the texts written as the report, in order
ReportsShown == [k \in 1..Len(SelectSeq(events, IsReport)) |-> SelectSeq(events, IsReport)[k].body]

PreviewsShown == [k \in 1..Len(SelectSeq(events, IsPreview)) |-> SelectSeq(events, IsPreview)[k].body]

\* number of start positions at which t occurs in s as a contiguous substring
Occurrences(t, s) ==
  Cardinality({i \in 0..(Len(s) - Len(t)) : SubSeq(s, i + 1, i + Len(t)) = t})

Contains(s, t) == \E i \in 0..(Len(s) - Len(t)) : SubSeq(s, i + 1, i + Len(t)) = t

\* the upload is one whose extraction throws: a PDF or document the library
\* cannot open, or plain-text bytes that are not UTF-8
ExtractionThrows(file) ==
  IF file.type \in {PdfType, DocxType} THEN ~file.readable
  ELSE ~IsValidUtf8(file.value)

ExtractionAttempted == Happened(IsExtraction)

ExtractionFailed == ExtractionAttempted /\ ExtractionThrows(uploaded_file)

ExtractionSucceeded == ExtractionAttempted /\ ~ExtractionThrows(uploaded_file)

ConstructionFailed == Happened(IsModelConstruction) /\ model = None

GenerationFailed == response # <<>> /\ ~response[1].ok

GenerationReturned == response # <<>> /\ response[1].ok

B2N(b) == IF b THEN 1 ELSE 0

(***************************************************************************)
(* C1: if the generation call (generate_content or reading response.text)  *)
(* fails, generate_interview_summary does not raise: one "Error generating *)
(* summary" notification is shown, the function returns exactly            *)
(* {"summary": "Could not generate summary."}, main's except clause is not *)
(* entered, and the flow goes on to render that fallback as the report.    *)
(***************************************************************************)
C1_GenerationFailureFallsBack ==
  GenerationFailed =>
    /\ pc \in {"render", "done"}
    /\ summary = <<[summary |-> FallbackSummary]>>
    /\ Count(IsGenerationError) = 1
    /\ Precedes(IsGenerationCall, IsGenerationError)
    /\ ~Happened(IsProcessingError)
    /\ pc = "done" => ReportsShown = <<FallbackSummary>> /\ Precedes(IsGenerationError, IsReport)

C1_Witness ==
  /\ GenerationFailed
  /\ response[1].exc = "response.text raised"
  /\ pc = "done"
  /\ ReportsShown = <<FallbackSummary>>

(***************************************************************************)
(* C2: when the extraction step throws (unreadable PDF, unreadable         *)
(* document, plain-text bytes that are not UTF-8) one "Error processing    *)
(* file" message is shown and the flow halts: no preview, no prompt, no    *)
(* model construction, no generation call, no report.                      *)
(***************************************************************************)
C2_ExtractionFailureHalts ==
  ExtractionFailed =>
    /\ pc = "done"
    /\ Count(IsProcessingError) = 1
    /\ transcript_text = <<>>
    /\ ~Happened(IsPreview)
    /\ prompt = <<>>
    /\ ~Happened(IsModelConstruction)
    /\ ~Happened(IsGenerationCall)
    /\ response = <<>>
    /\ summary = <<>>
    /\ ~Happened(IsReportHeader)
    /\ ~Happened(IsReport)

C2_Witness ==
  /\ ExtractionFailed
  /\ uploaded_file.type = "text/plain"
  /\ uploaded_file.value = <<97, 255>>
  /\ Happened(IsProcessingError)

(***************************************************************************)
(* C3 as stated: every prompt contains the six section headers in order    *)
(* and contains the transcript text as a contiguous substring exactly      *)
(* once, for every transcript including the empty one and fragments of the *)
(* template.                                                               *)
(***************************************************************************)
SectionHeaders ==
  << <<49,46,32,73,110,116,101,114,118,105,101,119,32,79,118,101,114,118,105,101,119>>,
     <<50,46,32,67,97,110,100,105,100,97,116,101,32,66,97,99,107,103,114,111,117,110,100>>,
     <<51,46,32,73,110,116,101,114,118,105,101,119,32,72,105,103,104,108,105,103,104,116,115>>,
     <<52,46,32,73,110,116,101,114,118,105,101,119,32,84,111,110,101,32,97,110,100,32,67,111,109,109,117,110,105,99,97,116,105,111,110>>,
     <<53,46,32,73,110,116,101,114,118,105,101,119,101,114,39,115,32,80,101,114,115,112,101,99,116,105,118,101>>,
     <<54,46,32,75,101,121,32,84,97,107,101,97,119,97,121,115>> >>

\* the first position at or after from where t occurs in s, or -1
FirstOccurrence(s, t, from) ==
  LET P == {i \in from..(Len(s) - Len(t)) : SubSeq(s, i + 1, i + Len(t)) = t}
  IN IF P = {} THEN -1 ELSE CHOOSE i \in P : \A j \in P : i <= j

\* s contains the headers h, h+1, ... in this order, without overlap, from position from on
RECURSIVE HeadersInOrderFrom(_, _, _)
HeadersInOrderFrom(s, h, from) ==
  IF h > Len(SectionHeaders) THEN TRUE
  ELSE LET p == FirstOccurrence(s, SectionHeaders[h], from)
       IN p >= 0 /\ HeadersInOrderFrom(s, h + 1, p + Len(SectionHeaders[h]))

HeadersInOrder(s) == HeadersInOrderFrom(s, 1, 0)

C3_TranscriptExactlyOnce ==
  prompt # <<>> =>
    /\ HeadersInOrder(prompt[1])
    /\ Occurrences(transcript_text[1], prompt[1]) = 1

(***************************************************************************)
(* C3 amended: every prompt is the fixed template with the transcript text *)
(* inserted verbatim at the single placeholder: it contains the six        *)
(* section headers in order, its length is the template's length plus the  *)
(* transcript's, and the transcript stands at the placeholder position     *)
(* between the template's two parts.  The transcript therefore occurs at   *)
(* least once, and exactly once whenever it contains a character that does *)
(* not occur in the template.                                              *)
(***************************************************************************)
\* "Transcript:\n", the template text right before the placeholder
PlaceholderLead == <<84,114,97,110,115,99,114,105,112,116,58,10>>

\* the characters of the fixed template
TemplateCharacters ==
  {PromptPrefix[i] : i \in DOMAIN PromptPrefix} \cup {PromptSuffix[i] : i \in DOMAIN PromptSuffix}

HasForeignCharacter(t) == \E i \in DOMAIN t : t[i] \notin TemplateCharacters

C3_TranscriptAtPlaceholder ==
  prompt # <<>> =>
    LET p == prompt[1]
        t == transcript_text[1]
        at == Len(PromptPrefix)
    IN /\ HeadersInOrder(p)
       /\ Len(p) = Len(PromptPrefix) + Len(t) + Len(PromptSuffix)
       /\ SubSeq(p, 1, at) = PromptPrefix
       /\ SubSeq(p, at - Len(PlaceholderLead) + 1, at) = PlaceholderLead
       /\ SubSeq(p, at + 1, at + Len(t)) = t
       /\ SubSeq(p, at + Len(t) + 1, Len(p)) = PromptSuffix
       /\ Occurrences(t, p) >= 1
       /\ HasForeignCharacter(t) => Occurrences(t, p) = 1

\* a transcript that is a section header of the template: it occurs twice
C3_Witness ==
  /\ prompt # <<>>
  /\ transcript_text[1] = HeaderOfTemplate
  /\ Occurrences(transcript_text[1], prompt[1]) = 2

(***************************************************************************)
(* C4: after a successful extraction the preview is shown first, then      *)
(* prompt construction, generation call and report rendering run           *)
(* unconditionally: the preview precedes the generation call, the          *)
(* generation call precedes the report, and every finished run whose       *)
(* extraction succeeded has rendered a report, whatever the outcome of     *)
(* constructing the model object or of the generation call.                *)
(***************************************************************************)
C4_ReportAlwaysRendered ==
  /\ Precedes(IsExtraction, IsPreview)
  /\ Precedes(IsPreview, IsGenerationCall)
  /\ Precedes(IsGenerationCall, IsReport)
  /\ (pc = "done" /\ ExtractionSucceeded) =>
       /\ Count(IsPreview) = 1
       /\ prompt # <<>>
       /\ Count(IsGenerationCall) = 1
       /\ Count(IsReport) = 1

(***************************************************************************)
(* C5: if the generation call returns the string R, the function returns   *)
(* the mapping with the single key "summary" bound to R unchanged, shows   *)
(* no error notification, and the report displayed is exactly R.           *)
(***************************************************************************)
C5_ResponseReturnedUnchanged ==
  GenerationReturned =>
    /\ pc \in {"render", "done"}
    /\ Len(summary) = 1
    /\ DOMAIN summary[1] = {"summary"}
    /\ summary[1].summary = response[1].text
    /\ ~Happened(IsGenerationError)
    /\ ~Happened(IsProcessingError)
    /\ pc = "done" => ReportsShown = <<response[1].text>>

\* a response with leading and trailing white space: "  ok \n"
C5_Witness ==
  /\ GenerationReturned
  /\ response[1].text = <<32,32,111,107,32,10>>
  /\ pc = "done"
  /\ ReportsShown = <<response[1].text>>

(***************************************************************************)
(* C6: the preview is the first 1000 characters of the extracted text      *)
(* followed by "..." when the text has more than 1000 characters, and is   *)
(* the text itself, without ellipsis, otherwise (1000 characters exactly   *)
(* and the empty text included).                                           *)
(***************************************************************************)
C6_PreviewTruncation ==
  Happened(IsPreview) =>
    LET t == transcript_text[1]
        shown == PreviewsShown[1]
    IN /\ Len(PreviewsShown) = 1
       /\ Len(t) <= 1000 => shown = t
       /\ Len(t) > 1000 =>
            /\ Len(shown) = 1003
            /\ \A i \in 1..1000 : shown[i] = t[i]
            /\ \A i \in 1001..1003 : shown[i] = 46

\* a text of exactly 1000 characters is shown whole
C6_Witness ==
  /\ Happened(IsPreview)
  /\ Len(transcript_text[1]) = 1000
  /\ PreviewsShown = <<transcript_text[1]>>

(***************************************************************************)
(* C7: no retry: extraction is attempted at most once and the generation   *)
(* call is issued at most once, and each failing step is surfaced by       *)
(* exactly one error notification: one "Error processing file" when the    *)
(* extraction or the model construction fails, one "Error generating       *)
(* summary" when the generation call fails, and no error at all when no    *)
(* step fails.                                                             *)
(***************************************************************************)
ConfigurationFailed ==
  pc # "configure" /\ ~client_configured

C7_NoRetryOneErrorPerFailure ==
  /\ Count(IsExtraction) <= 1
  /\ Count(IsModelConstruction) <= 1
  /\ Count(IsGenerationCall) <= 1
  /\ Count(IsProcessingError) = B2N(ExtractionFailed) + B2N(ConstructionFailed)
  /\ Count(IsGenerationError) = B2N(GenerationFailed)
  /\ Count(IsError) = B2N(ConfigurationFailed) + B2N(ExtractionFailed)
                        + B2N(ConstructionFailed) + B2N(GenerationFailed)

C7_Witness ==
  /\ pc = "done"
  /\ ~ConfigurationFailed
  /\ GenerationFailed
  /\ Count(IsGenerationCall) = 1
  /\ Count(IsError) = 1

(***************************************************************************)
(* C8: with the API key absent from the environment, the configuration     *)
(* step shows one error, does not configure the client and does not stop   *)
(* the script: main starts afterwards, and every generation call then      *)
(* attempted is issued, fails and yields the fallback summary.             *)
(***************************************************************************)
C8_MissingKeyDegradesGeneration ==
  (api_key = None /\ pc # "configure") =>
    /\ IsConfigurationError(events[1])
    /\ Count(IsError) - Count(IsProcessingError) - Count(IsGenerationError) = 1
    /\ ~Happened(IsConfigureCall)
    /\ ~client_configured
    /\ pc = "done" => Happened(IsTitle)
    /\ (pc = "done" /\ model # None) => Count(IsGenerationCall) = 1
    /\ Happened(IsGenerationCall) =>
         /\ GenerationFailed
         /\ summary = <<[summary |-> FallbackSummary]>>
         /\ pc = "done" => ReportsShown = <<FallbackSummary>>

C8_Witness ==
  /\ api_key = None
  /\ pc = "done"
  /\ Happened(IsGenerationCall)
  /\ ReportsShown = <<FallbackSummary>>

(***************************************************************************)
(* C9: for a PDF with N pages (a document with N paragraphs) the extracted *)
(* text is the N segment texts in order with exactly one space between     *)
(* consecutive segments: empty for N = 0, and for N >= 1 of length the sum *)
(* of the segment lengths plus N - 1, each segment standing at its offset  *)
(* and followed, except the last, by one space.  An empty segment          *)
(* contributes an empty segment.                                           *)
(***************************************************************************)
\* where segment i starts in the joined text: after the i - 1 segments and separators before it
RECURSIVE SegmentOffset(_, _)
SegmentOffset(segments, i) ==
  IF i = 1 THEN 0
  ELSE SegmentOffset(segments, i - 1) + Len(segments[i - 1]) + 1

C9_SegmentsJoinedBySingleSpaces ==
  (ExtractionSucceeded /\ uploaded_file.type \in {PdfType, DocxType}) =>
    LET segs == uploaded_file.segments
        n == Len(segs)
        t == transcript_text[1]
    IN /\ n = 0 => t = <<>>
       /\ n >= 1 =>
            /\ Len(t) = SegmentOffset(segs, n) + Len(segs[n])
            /\ \A i \in 1..n :
                 SubSeq(t, SegmentOffset(segs, i) + 1, SegmentOffset(segs, i) + Len(segs[i])) = segs[i]
            /\ \A i \in 1..(n - 1) : t[SegmentOffset(segs, i) + Len(segs[i]) + 1] = 32

\* three pages, the middle one empty: "a", "", "a" gives "a  a"
C9_Witness ==
  /\ ExtractionSucceeded
  /\ uploaded_file.type = PdfType
  /\ uploaded_file.segments = <<<<97>>, <<>>, <<97>>>>
  /\ transcript_text = <<<<97, 32, 32, 97>>>>

(***************************************************************************)
(* C10: every processed upload ends in exactly one of two outcomes: the    *)
(* report section is rendered (model text or fallback) or the single       *)
(* "Error processing file" message is shown; never both, never neither.    *)
(***************************************************************************)
ReportRendered == Happened(IsReportHeader) /\ Happened(IsReport)

C10_ReportOrProcessingError ==
  /\ ~(Happened(IsReportHeader) /\ Happened(IsProcessingError))
  /\ ~(Happened(IsReport) /\ Happened(IsProcessingError))
  /\ Count(IsProcessingError) <= 1
  /\ Count(IsReport) <= 1
  /\ (pc = "done" /\ uploaded_file # NoFile) =>
       (ReportRendered \/ Happened(IsProcessingError))
  /\ ReportRendered => ReportsShown \in {<<FallbackSummary>>} \cup {<<r>> : r \in Responses}

\* the model object could not be constructed: the error is shown after the preview, and no report
C10_Witness ==
  /\ pc = "done"
  /\ ConstructionFailed
  /\ Happened(IsPreview)
  /\ Count(IsProcessingError) = 1
  /\ ~ReportRendered
====
